---- MODULE Spec2Model ----
(***************************************************************************)
(* Session orchestration of the D200 controller (main.py): the controller  *)
(* lock and active flag, the start-sequence workers (focus acquisition,    *)
(* tether macro, timer start) and the SessionTimer tick threads; the Api   *)
(* of Dashboard.py with its run_in_bg threads, archive and timer; and the  *)
(* WindowsController calls and the tether macro of both files, statement   *)
(* by statement.                                                           *)
(***************************************************************************)
EXTENDS Integers, Sequences, FiniteSets, TLC

\* ------------------------------------------------------------------ bounds
\* SpecTimer draws duration_minutes from 1..MaxMinutes.
MaxMinutes == 16
\* start() calls that spawn a tick thread, per SessionTimer.
MaxThreads == 2
\* threads calling start_session / end_session on the controller.
MaxCallers == 2
\* accepted start_session calls (start-sequence workers) per behaviour.
MaxStarts == 2
\* the duration passed to start_session in Spec.
CtlMinutes == 1
\* Api calls (run_in_bg threads) per behaviour.
MaxActions == 2
\* depth of the export folder's tree: a file lies at most MaxDepth - 1 folders down.
MaxDepth == 3
\* SpecJsTimer draws duration_minutes from {CtlMinutes, JsMinutes}: the countdown
\* of JsMinutes minutes passes the 5-minute reminder.
JsMinutes == 6

\* ------------------------------------------------------- program constants
LaunchPolls == 20
max_retries == 10
BasicMinutes == 30
reminder_points == (15 :> "end_15min") @@ (5 :> "end_5min")
MacroKeys ==
  << "alt+f", "down", "down", "down", "down", "down", "down", "down", "down",
     "right", "enter", "session_name", "tab", "tab", "tab", "tab", "1",
     "enter", "ctrl+alt+1", "e" >>

VARIABLES
  WINDOWS_AVAILABLE,  \* module flag set by the win32 imports
  is_session_active,  \* D200Controller.is_session_active
  timer,              \* D200Controller.timer: 0 is None, else an index of timers
  lock,               \* D200Controller._lock: 0 is free, else the holding caller
  callers,            \* the threads that call start_session / end_session
  workers,            \* the _run_start_sequence threads, in spawn order
  timers,             \* every SessionTimer constructed, in construction order
  end_cues,           \* SoundPlayer.play('end') calls made by end_session
  kills,              \* process terminations invoked (proc.terminate)
  api_timer,          \* Dashboard Api.timer: 0 is None, else an index of timers
  bg,                 \* Dashboard Api: the run_in_bg threads, in spawn order
  exported,           \* the export folder on the desktop: whether it exists, its files
  archives,           \* the zip archives on the desktop: the entries of each
  wc,                 \* one WindowsController call, statement by statement
  macro               \* the tether macro of each implementation, statement by statement

\* the state of Dashboard.py
dash == << api_timer, bg, exported, archives >>

vars == << WINDOWS_AVAILABLE, is_session_active, timer, lock, callers, workers,
           timers, end_cues, kills, dash, wc, macro >>

\* a call of ensure_lightroom_running or wait_for_lightroom_focus (fn) of
\* main.py or Dashboard.py (impl), before its first statement
NewCall(impl, fn, running, path_ok) ==
  [ impl        |-> impl,
    fn          |-> fn,
    pc          |-> IF fn = "ensure" THEN "is_process_running" ELSE "windows",
    running     |-> running,   \* a process with the configured name exists
    path_ok     |-> path_ok,   \* lightroom_path is set and exists
    found       |-> FALSE,     \* what is_process_running returned
    popen       |-> 0,         \* subprocess.Popen calls made
    polls       |-> 0,         \* find_window_by_title calls of the launch loop
    i           |-> 0,         \* iterations of the retry loop begun
    hwnd        |-> "none",    \* the handle find_window_by_title returned last
    hwnd_at     |-> 0,         \* the iteration in which it did
    fg          |-> "none",    \* what GetForegroundWindow() returned last
    fg_at       |-> 0,         \* the iteration in which it did
    activations |-> 0,         \* activate_window calls made
    ret         |-> "none" ]   \* "True", "False", or "raised"

NoCall == NewCall("none", "none", FALSE, FALSE)

Callers == 1..MaxCallers
LocatorResults == {"hwnd", "none", "raise"}

\* ------------------------------------------------------- the tether macro
\* the statements of a macro: time.sleep(d) with d in tenths of a second,
\* keyboard.send(key), keyboard.write(key), and keyboard.write(session_name)
Sleep(d) == [op |-> "sleep", key |-> "", d |-> d]
Send(key) == [op |-> "send", key |-> key, d |-> 0]
Write(key) == [op |-> "write", key |-> key, d |-> 0]
WriteSessionName == [op |-> "write_name", key |-> "session_name", d |-> 0]

\* `for _ in range(n): body`
RECURSIVE Repeat(_, _)
Repeat(body, n) == IF n = 0 THEN << >> ELSE body \o Repeat(body, n - 1)

\* main.py, _run_start_sequence: the statements of the tethering macro
run_start_sequence ==
  << Sleep(15), Send("alt+f"), Sleep(5) >>
  \o Repeat(<< Send("down"), Sleep(1) >>, 8)
  \o << Send("right"), Sleep(3), Send("enter"), Sleep(8), WriteSessionName >>
  \o Repeat(<< Sleep(2), Send("tab") >>, 4)
  \o << Sleep(2), Write("1"), Sleep(3), Send("enter"),
        Sleep(25), Send("ctrl+alt+1"), Sleep(8), Send("e") >>

start_tether_tab_first ==
  << Sleep(15), Send("alt+f"), Sleep(5) >>
  \o Repeat(<< Send("down"), Sleep(1) >>, 8)
  \o << Send("right"), Sleep(3), Send("enter"), Sleep(8), WriteSessionName >>
  \o Repeat(<< Send("tab"), Sleep(2) >>, 4)
  \o << Sleep(2), Write("1"), Sleep(3), Send("enter"),
        Sleep(25), Send("ctrl+alt+1"), Sleep(8), Send("e") >>

\* Dashboard.py, MacroActions.start_tether: the statements after the focus test
start_tether ==
  << Sleep(15), Send("alt+f"), Sleep(5) >>
  \o Repeat(<< Send("down"), Sleep(1) >>, 8)
  \o << Send("right"), Sleep(3), Send("enter"), Sleep(8), WriteSessionName >>
  \o Repeat(<< Sleep(2), Send("tab") >>, 4)
  \o << Sleep(2), Write("1"), Sleep(3), Send("enter"),
        Sleep(25), Send("ctrl+alt+1"), Sleep(8), Send("e") >>

IsKeyEvent(st) == st.op # "sleep"

\* the key events of a macro, in order
KeyEvents(steps) ==
  LET sent == SelectSeq(steps, IsKeyEvent)
  IN [k \in 1..Len(sent) |-> sent[k].key]

\* ------------------------------------------------------------ SessionTimer
ThreadPcs == {"while", "sleep", "after", "on_end", "finish", "done"}

SessionTimer(duration_minutes, on_end) ==
  [ minutes    |-> duration_minutes,
    remaining  |-> duration_minutes * 60,
    is_running |-> FALSE,
    reminded   |-> {},
    on_end     |-> on_end,              \* "ctl" (_on_timer_end) or "none"
    threads    |-> [pc \in ThreadPcs |-> 0],  \* number of _run threads at each position
    \* observations
    fired      |-> [p \in DOMAIN reminder_points |-> 0],   \* cue plays per threshold
    first_at   |-> [p \in DOMAIN reminder_points |-> -1],  \* remaining_seconds at the first one
    ends       |-> 0,                   \* expiry (end cue + on_end) count
    stopped    |-> FALSE,               \* stop() returned before expiry, no start() since
    late_cue   |-> FALSE,               \* a reminder cue played while stopped
    late_end   |-> FALSE ]              \* the expiry fired while stopped

\* SessionTimer.start
TimerStart(tm) ==
  IF tm.is_running THEN tm
  ELSE [tm EXCEPT !.is_running = TRUE,
                  !.reminded = {},
                  !.threads = [@ EXCEPT !["while"] = @ + 1],
                  !.stopped = FALSE]

\* SessionTimer.stop
TimerStop(tm) ==
  IF tm.is_running
    THEN [tm EXCEPT !.is_running = FALSE,
                    !.stopped = (tm.remaining > 0)]
    ELSE tm

Spawned(tm) == tm.threads["while"] + tm.threads["sleep"] + tm.threads["after"]
               + tm.threads["on_end"] + tm.threads["finish"] + tm.threads["done"]

Live(tm) == Spawned(tm) - tm.threads["done"]

\* A SessionTimer that no thread runs and its owner's self.timer (ref) no
\* longer names is unreachable: its countdown fields are dropped, what was
\* observed of it is kept.
Dropped(tm) == [tm EXCEPT !.remaining = 0, !.reminded = {}, !.stopped = FALSE]

\* the timers of main.py's controller, whose self.timer is ref
Collect(ts, ref) ==
  [t \in 1..Len(ts) |->
     IF Live(ts[t]) = 0 /\ \/ ts[t].on_end = "ctl" /\ ref # t
                           \/ ts[t].on_end = "js" /\ api_timer # t
       THEN Dropped(ts[t])
       ELSE ts[t]]

\* the timers of Dashboard.py's Api, whose self.timer is ref
ApiCollect(ts, ref) ==
  [t \in 1..Len(ts) |->
     IF ts[t].on_end = "js" /\ Live(ts[t]) = 0 /\ ref # t
       THEN Dropped(ts[t])
       ELSE ts[t]]

CanStart(tm) == tm.is_running \/ Spawned(tm) < MaxThreads

TickBodyNoMark(tm) ==
  LET rem == tm.remaining - 1
      remaining_min == rem \div 60
  IN IF remaining_min \in DOMAIN reminder_points /\ remaining_min \notin tm.reminded
       THEN [tm EXCEPT !.remaining = rem,
                       !.fired[remaining_min] = @ + 1,
                       !.first_at[remaining_min] =
                          IF tm.fired[remaining_min] = 0 THEN rem ELSE @,
                       !.late_cue = @ \/ tm.stopped]
       ELSE [tm EXCEPT !.remaining = rem]

\* the body of one loop iteration of SessionTimer._run, after the sleep
TickBody(tm) ==
  LET rem == tm.remaining - 1
      remaining_min == rem \div 60
  IN IF remaining_min \in DOMAIN reminder_points /\ remaining_min \notin tm.reminded
       THEN [tm EXCEPT !.remaining = rem,
                       !.reminded = @ \cup {remaining_min},
                       !.fired[remaining_min] = @ + 1,
                       !.first_at[remaining_min] =
                          IF tm.fired[remaining_min] = 0 THEN rem ELSE @,
                       !.late_cue = @ \/ tm.stopped]
       ELSE [tm EXCEPT !.remaining = rem]

\* one _run thread of timer t moves from position a to position b
Move(tm, a, b) ==
  [tm EXCEPT !.threads = [@ EXCEPT ![a] = @ - 1, ![b] = @ + 1]]

ThreadAt(t, pc) ==
  /\ t \in 1..Len(timers)
  /\ timers[t].threads[pc] > 0

\* the test of `while self.remaining_seconds > 0 and self.is_running`, made by
\* a thread at position pc: into time.sleep(1), or out of the loop
LoopTest(tm, pc) ==
  IF tm.remaining > 0 /\ tm.is_running
    THEN Move(tm, pc, "sleep")
    ELSE Move(tm, pc, "after")

\* SessionTimer._run: the first while test of a new thread
TimerLoop(t) ==
  /\ ThreadAt(t, "while")
  /\ timers' = [timers EXCEPT ![t] = LoopTest(@, "while")]
  /\ UNCHANGED << WINDOWS_AVAILABLE, wc, macro, is_session_active, timer, lock, callers,
                  workers, end_cues, kills, dash >>

\* SessionTimer._run: wake from time.sleep(1), decrement, remind, and make the
\* next while test
TimerTick(t) ==
  /\ ThreadAt(t, "sleep")
  /\ timers' = [timers EXCEPT ![t] = LoopTest(TickBody(@), "sleep")]
  /\ UNCHANGED << WINDOWS_AVAILABLE, wc, macro, is_session_active, timer, lock, callers,
                  workers, end_cues, kills, dash >>

ExpireSilent(tm) == Move(tm, "after", "done")

\* SessionTimer._run: the test after the loop and the end cue
Expire(tm) ==
  IF tm.is_running
    THEN Move([tm EXCEPT !.ends = @ + 1, !.late_end = @ \/ tm.stopped],
              "after", IF tm.on_end = "ctl" THEN "on_end" ELSE "finish")
    ELSE Move(tm, "after", "done")

TimerAfter(t) ==
  /\ ThreadAt(t, "after")
  /\ timers' = Collect([timers EXCEPT ![t] = Expire(@)], timer)
  /\ UNCHANGED << WINDOWS_AVAILABLE, wc, macro, is_session_active, timer, lock, callers,
                  workers, end_cues, kills, dash >>

\* D200Controller._on_timer_end, called from SessionTimer._run
TimerOnEnd(t) ==
  /\ ThreadAt(t, "on_end")
  /\ lock = 0
  /\ is_session_active' = FALSE
  /\ timers' = [timers EXCEPT ![t] = Move(@, "on_end", "finish")]
  /\ UNCHANGED << WINDOWS_AVAILABLE, wc, macro, timer, lock, callers, workers, end_cues, kills, dash >>

\* SessionTimer._run: the final is_running = False
TimerFinish(t) ==
  /\ ThreadAt(t, "finish")
  /\ timers' = Collect([timers EXCEPT ![t] = Move([@ EXCEPT !.is_running = FALSE], "finish", "done")],
                       timer)
  /\ UNCHANGED << WINDOWS_AVAILABLE, wc, macro, is_session_active, timer, lock, callers,
                  workers, end_cues, kills, dash >>

\* a caller of the SessionTimer API: start()
CallTimerStart(t) ==
  /\ t \in 1..Len(timers)
  /\ CanStart(timers[t])
  /\ timers' = [timers EXCEPT ![t] = TimerStart(@)]
  /\ UNCHANGED << WINDOWS_AVAILABLE, wc, macro, is_session_active, timer, lock, callers,
                  workers, end_cues, kills, dash >>

\* a caller of the SessionTimer API: stop()
CallTimerStop(t) ==
  /\ t \in 1..Len(timers)
  /\ timers' = [timers EXCEPT ![t] = TimerStop(@)]
  /\ UNCHANGED << WINDOWS_AVAILABLE, wc, macro, is_session_active, timer, lock, callers,
                  workers, end_cues, kills, dash >>

\* raced: another call was accepted while this start_session call is in flight
IdleCaller == [pc |-> "idle", minutes |-> 0, raced |-> FALSE]

InitCtl ==
  /\ WINDOWS_AVAILABLE \in BOOLEAN
  /\ is_session_active = FALSE
  /\ timer = 0
  /\ lock = 0
  /\ callers = [c \in Callers |-> IdleCaller]
  /\ workers = << >>
  /\ end_cues = 0
  /\ kills = 0
  /\ api_timer = 0
  /\ bg = << >>
  /\ exported = [exists |-> TRUE, files |-> {}]
  /\ archives = << >>
  /\ wc = NoCall
  /\ macro = << >>

\* ---------------------------------------------- SpecTimer: one SessionTimer
InitTimer ==
  /\ InitCtl
  /\ WINDOWS_AVAILABLE
  /\ \E m \in 1..MaxMinutes : timers = << SessionTimer(m, "none") >>

NextTimer ==
  \E t \in 1..Len(timers) :
    \/ CallTimerStart(t)
    \/ CallTimerStop(t)
    \/ TimerLoop(t)
    \/ TimerTick(t)
    \/ TimerAfter(t)
    \/ TimerFinish(t)

SpecTimer == InitTimer /\ [][NextTimer]_vars

\* ----------------------------------------------------------- D200Controller
StartInFlight(c) == callers[c].pc \in {"start_lock", "start_reject", "start_spawn"}

\* accepted start_session calls so far, and start_session calls that may still be accepted
Accepted == Len(workers) + Cardinality({c \in Callers : callers[c].pc = "start_spawn"})
Pending == Cardinality({c \in Callers : callers[c].pc = "start_lock"})

\* a thread calls start_session(minutes) and reaches the lock
StartCall(c, minutes) ==
  /\ callers[c].pc = "idle"
  /\ Accepted + Pending < MaxStarts
  /\ callers' = [callers EXCEPT ![c] =
       [pc |-> "start_lock", minutes |-> minutes, raced |-> FALSE]]
  /\ UNCHANGED << WINDOWS_AVAILABLE, wc, macro, is_session_active, timer, lock, workers,
                  timers, end_cues, kills, dash >>

StartCheckNever(active) == "accepted"

\* the result of the check-and-set that start_session makes under the lock
StartCheck(active) == IF active THEN "already_active" ELSE "accepted"

\* start_session: the `with self._lock` block: either up to the `return`
\* (lock still held), or through the set of the flag and out of the block
StartLocked(c) ==
  /\ callers[c].pc = "start_lock"
  /\ lock = 0
  /\ IF StartCheck(is_session_active) = "already_active"
       THEN /\ callers' = [callers EXCEPT ![c].pc = "start_reject"]
            /\ lock' = c
            /\ UNCHANGED is_session_active
       ELSE /\ is_session_active' = TRUE
            /\ UNCHANGED lock
            /\ callers' = [d \in Callers |->
                 IF d = c
                   THEN [callers[c] EXCEPT
                           !.pc = "start_spawn",
                           !.raced = @ \/ \E e \in Callers \ {c} : callers[e].pc = "start_spawn"]
                   ELSE IF StartInFlight(d)
                          THEN [callers[d] EXCEPT !.raced = TRUE]
                          ELSE callers[d]]
  /\ UNCHANGED << WINDOWS_AVAILABLE, wc, macro, timer, workers, timers, end_cues, kills, dash >>

\* the `return` inside the with block of start_session or end_session
Return(c) ==
  /\ callers[c].pc \in {"start_reject", "end_noop"}
  /\ lock' = 0
  /\ callers' = [callers EXCEPT ![c] = IdleCaller]
  /\ UNCHANGED << WINDOWS_AVAILABLE, wc, macro, is_session_active, timer, workers, timers,
                  end_cues, kills, dash >>

NewWorker(minutes) ==
  [ pc      |-> "ensure",
    i       |-> 0,          \* iterations of the current polling loop
    keys    |-> 0,          \* macro key events sent
    minutes |-> minutes,
    res     |-> "none",     \* how the attempt ended
    saw     |-> FALSE,      \* find_window_by_title returned a window in this attempt
    tid     |-> 0 ]         \* the SessionTimer this attempt constructed

\* start_session: threading.Thread(target=self._run_start_sequence).start()
StartSpawn(c) ==
  /\ callers[c].pc = "start_spawn"
  /\ workers' = Append(workers, NewWorker(callers[c].minutes))
  /\ callers' = [callers EXCEPT ![c] = IdleCaller]
  /\ UNCHANGED << WINDOWS_AVAILABLE, wc, macro, is_session_active, timer, lock, timers,
                  end_cues, kills, dash >>

\* a thread calls end_session and reaches the lock
EndCall(c) ==
  /\ callers[c].pc = "idle"
  /\ callers' = [callers EXCEPT ![c] =
       [pc |-> "end_lock", minutes |-> 0, raced |-> FALSE]]
  /\ UNCHANGED << WINDOWS_AVAILABLE, wc, macro, is_session_active, timer, lock, workers,
                  timers, end_cues, kills, dash >>

EndCheckAlways(active) == "end_timer"

EndCheckWait(active) == "end_lock"

\* where `if not self.is_session_active` sends end_session
EndCheck(active) == IF ~active THEN "end_noop" ELSE "end_timer"

\* end_session: acquire the lock and test is_session_active
EndLocked(c) ==
  /\ callers[c].pc = "end_lock"
  /\ lock = 0
  /\ lock' = c
  /\ callers' = [callers EXCEPT ![c].pc = EndCheck(is_session_active)]
  /\ UNCHANGED << WINDOWS_AVAILABLE, wc, macro, is_session_active, timer, workers, timers,
                  end_cues, kills, dash >>

\* end_session: `if self.timer: self.timer.stop()`
EndStopTimer(c) ==
  /\ callers[c].pc = "end_timer"
  /\ IF timer # 0
       THEN /\ timers' = [timers EXCEPT ![timer] = TimerStop(@)]
            /\ callers' = [callers EXCEPT ![c].pc = "end_clear"]
       ELSE /\ callers' = [callers EXCEPT ![c].pc = "end_finish"]
            /\ UNCHANGED timers
  /\ UNCHANGED << WINDOWS_AVAILABLE, wc, macro, is_session_active, timer, lock, workers,
                  end_cues, kills, dash >>

\* end_session: `self.timer = None` (inside the if), clear the flag, play the
\* end cue, release the lock
EndFinish(c) ==
  /\ callers[c].pc \in {"end_clear", "end_finish"}
  /\ timer' = IF callers[c].pc = "end_clear" THEN 0 ELSE timer
  /\ is_session_active' = FALSE
  /\ end_cues' = end_cues + 1
  /\ lock' = 0
  /\ callers' = [callers EXCEPT ![c] = IdleCaller]
  /\ timers' = Collect(timers, timer')
  /\ UNCHANGED << WINDOWS_AVAILABLE, wc, macro, workers, kills, dash >>

\* ------------------------------------------- _run_start_sequence (a worker)
WorkerAt(w, pc) == w \in 1..Len(workers) /\ workers[w].pc = pc

FailFlagKeep(active) == active

\* a failure exit of _run_start_sequence: `self.is_session_active = False`
FailFlag(active) == FALSE

\* a worker thread that has returned: its locals are gone
Done(wk, res) == [wk EXCEPT !.pc = "done", !.res = res, !.i = 0, !.keys = 0, !.saw = FALSE]

Fail(w, res, wk) ==
  /\ workers' = [workers EXCEPT ![w] = Done(wk, res)]
  /\ is_session_active' = FailFlag(is_session_active)

\* ensure_lightroom_running up to the polling loop. running: what
\* is_process_running finds; path_ok: lightroom_path is set and exists;
\* popen_ok: subprocess.Popen does not raise.
WorkerEnsure(w, running, path_ok, popen_ok) ==
  /\ WorkerAt(w, "ensure")
  /\ IF WINDOWS_AVAILABLE /\ running
       THEN /\ workers' = [workers EXCEPT ![w].pc = "focus", ![w].i = 0]
            /\ UNCHANGED is_session_active
       ELSE IF ~path_ok
         THEN Fail(w, "path_invalid", workers[w])
         ELSE IF ~popen_ok
           THEN Fail(w, "launch_failed", workers[w])
           ELSE /\ workers' = [workers EXCEPT ![w].pc = "launch_poll", ![w].i = 0]
                /\ UNCHANGED is_session_active
  /\ UNCHANGED << WINDOWS_AVAILABLE, wc, macro, timer, lock, callers, timers, end_cues, kills, dash >>

\* what focus acquisition hands to _run_start_sequence when an attempt ends
\* for reason res: the function that returned, and its boolean
AcquisitionResult(res) ==
  IF res \in {"path_invalid", "launch_failed", "no_window"}
    THEN << "ensure_lightroom_running", FALSE >>
    ELSE IF res = "no_focus"
      THEN << "wait_for_lightroom_focus", FALSE >>
      ELSE << "wait_for_lightroom_focus", TRUE >>

LoopNever(i, n) == FALSE

\* `for _ in range(n)` after i iterations: the loop is over
LoopDone(i, n) == i >= n

\* what find_window_by_title returns, given what the window system would show
find_window_by_title(shown) == IF WINDOWS_AVAILABLE THEN shown ELSE "none"

\* ensure_lightroom_running: one iteration of `for _ in range(20)`
WorkerLaunchPoll(w, shown) ==
  /\ WorkerAt(w, "launch_poll")
  /\ LET found == find_window_by_title(shown)
         wk == [workers[w] EXCEPT !.i = @ + 1]
     IN IF found = "hwnd"
          THEN /\ workers' = [workers EXCEPT ![w] = [wk EXCEPT !.pc = "focus", !.i = 0, !.saw = TRUE]]
               /\ UNCHANGED is_session_active
          ELSE IF found = "raise"
            THEN Fail(w, "launch_failed", wk)
            ELSE IF LoopDone(wk.i, LaunchPolls)
              THEN Fail(w, "no_window", wk)
              ELSE /\ workers' = [workers EXCEPT ![w] = wk]
                   /\ UNCHANGED is_session_active
  /\ UNCHANGED << WINDOWS_AVAILABLE, wc, macro, timer, lock, callers, timers, end_cues, kills, dash >>

\* wait_for_lightroom_focus: one iteration of `for _ in range(max_retries)`.
\* foreground: GetForegroundWindow() == hwnd after activate_window.
WorkerFocus(w, shown, foreground) ==
  /\ WorkerAt(w, "focus")
  /\ IF ~WINDOWS_AVAILABLE
       THEN /\ workers' = [workers EXCEPT ![w].pc = "macro", ![w].i = 0]
            /\ UNCHANGED is_session_active
       ELSE LET found == find_window_by_title(shown)
                wk == [workers[w] EXCEPT !.i = @ + 1]
            IN IF found = "raise"
                 THEN Fail(w, "exception", wk)
                 ELSE IF found = "hwnd" /\ foreground
                   THEN /\ workers' = [workers EXCEPT ![w] =
                              [wk EXCEPT !.pc = "macro", !.i = 0, !.saw = TRUE]]
                        /\ UNCHANGED is_session_active
                   ELSE IF LoopDone(wk.i, max_retries)
                     THEN Fail(w, "no_focus", [wk EXCEPT !.saw = @ \/ found = "hwnd"])
                     ELSE /\ workers' = [workers EXCEPT ![w] =
                                [wk EXCEPT !.saw = @ \/ found = "hwnd"]]
                          /\ UNCHANGED is_session_active
  /\ UNCHANGED << WINDOWS_AVAILABLE, wc, macro, timer, lock, callers, timers, end_cues, kills, dash >>

AfterKeyFirst(keys) == "timer_create"

\* where _run_start_sequence stands after its keys-th key event: in the macro,
\* or past its last key at the timer
AfterKey(keys) == IF keys = Len(MacroKeys) THEN "timer_create" ELSE "macro"

\* the tether macro: the next keyboard.send / keyboard.write, which may raise
WorkerMacro(w, raises) ==
  /\ WorkerAt(w, "macro")
  /\ IF raises
       THEN Fail(w, "exception", workers[w])
       ELSE /\ workers' = [workers EXCEPT
                 ![w].keys = @ + 1,
                 ![w].pc = AfterKey(workers[w].keys + 1)]
            /\ UNCHANGED is_session_active
  /\ UNCHANGED << WINDOWS_AVAILABLE, wc, macro, timer, lock, callers, timers, end_cues, kills, dash >>

\* `self.timer = SessionTimer(minutes, on_end=self._on_timer_end)`
WorkerCreateTimer(w) ==
  /\ WorkerAt(w, "timer_create")
  /\ timers' = Collect(Append(timers, SessionTimer(workers[w].minutes, "ctl")), Len(timers) + 1)
  /\ timer' = Len(timers) + 1
  /\ workers' = [workers EXCEPT ![w].pc = "timer_start", ![w].tid = Len(timers) + 1]
  /\ UNCHANGED << WINDOWS_AVAILABLE, wc, macro, is_session_active, lock, callers, end_cues, kills, dash >>

\* `self.timer.start()`: self.timer is read again; None raises AttributeError
WorkerStartTimer(w) ==
  /\ WorkerAt(w, "timer_start")
  /\ IF timer = 0
       THEN /\ Fail(w, "exception", workers[w])
            /\ UNCHANGED timers
       ELSE /\ CanStart(timers[timer])
            /\ timers' = [timers EXCEPT ![timer] = TimerStart(@)]
            /\ workers' = [workers EXCEPT ![w] = Done(@, "ok")]
            /\ UNCHANGED is_session_active
  /\ UNCHANGED << WINDOWS_AVAILABLE, wc, macro, timer, lock, callers, end_cues, kills, dash >>

\* ------------------------------------------------- Spec: the whole controller
Init ==
  /\ InitCtl
  /\ timers = << >>

Next ==
  \/ \E c \in Callers :
       \/ StartCall(c, CtlMinutes)
       \/ StartLocked(c)
       \/ StartSpawn(c)
       \/ Return(c)
       \/ EndCall(c)
       \/ EndLocked(c)
       \/ EndStopTimer(c)
       \/ EndFinish(c)
  \/ \E w \in 1..Len(workers) :
       \/ \E running, path_ok, popen_ok \in BOOLEAN : WorkerEnsure(w, running, path_ok, popen_ok)
       \/ \E shown \in LocatorResults : WorkerLaunchPoll(w, shown)
       \/ \E shown \in LocatorResults, foreground \in BOOLEAN : WorkerFocus(w, shown, foreground)
       \/ \E raises \in BOOLEAN : WorkerMacro(w, raises)
       \/ WorkerCreateTimer(w)
       \/ WorkerStartTimer(w)
  \/ \E t \in 1..Len(timers) :
       \/ TimerLoop(t)
       \/ TimerTick(t)
       \/ TimerAfter(t)
       \/ TimerOnEnd(t)
       \/ TimerFinish(t)

Spec == Init /\ [][Next]_vars

WorkerStep(w) ==
  \/ \E running, path_ok, popen_ok \in BOOLEAN : WorkerEnsure(w, running, path_ok, popen_ok)
  \/ \E shown \in LocatorResults : WorkerLaunchPoll(w, shown)
  \/ \E shown \in LocatorResults, foreground \in BOOLEAN : WorkerFocus(w, shown, foreground)
  \/ \E raises \in BOOLEAN : WorkerMacro(w, raises)
  \/ WorkerCreateTimer(w)
  \/ WorkerStartTimer(w)

\* ------------- FairStart: one dispatch thread that only starts sessions, with
\* every worker thread scheduled again and again
NextStart ==
  \/ StartCall(1, CtlMinutes)
  \/ StartLocked(1)
  \/ StartSpawn(1)
  \/ Return(1)
  \/ \E w \in 1..Len(workers) :
       \/ \E running, path_ok, popen_ok \in BOOLEAN : WorkerEnsure(w, running, path_ok, popen_ok)
       \/ \E shown \in LocatorResults : WorkerLaunchPoll(w, shown)
       \/ \E shown \in LocatorResults, foreground \in BOOLEAN : WorkerFocus(w, shown, foreground)
       \/ \E raises \in BOOLEAN : WorkerMacro(w, raises)
       \/ WorkerCreateTimer(w)
       \/ WorkerStartTimer(w)
  \/ \E t \in 1..Len(timers) :
       \/ TimerLoop(t)
       \/ TimerTick(t)
       \/ TimerAfter(t)
       \/ TimerOnEnd(t)
       \/ TimerFinish(t)

FairStart ==
  /\ Init
  /\ [][NextStart]_vars
  /\ \A w \in 1..MaxStarts : WF_vars(WorkerStep(w))

\* ---- SpecBasic: the 30-minute hotkey with the target already running and
\* focusable at once, and no key event raising
InitBasic ==
  /\ Init
  /\ WINDOWS_AVAILABLE

NextBasic ==
  \/ StartCall(1, BasicMinutes)
  \/ StartLocked(1)
  \/ StartSpawn(1)
  \/ Return(1)
  \/ \E w \in 1..Len(workers) :
       \/ WorkerEnsure(w, TRUE, TRUE, TRUE)
       \/ WorkerFocus(w, "hwnd", TRUE)
       \/ WorkerMacro(w, FALSE)
       \/ WorkerCreateTimer(w)
       \/ WorkerStartTimer(w)
  \/ \E t \in 1..Len(timers) :
       \/ TimerLoop(t)
       \/ TimerTick(t)
       \/ TimerAfter(t)
       \/ TimerOnEnd(t)
       \/ TimerFinish(t)

SpecBasic == InitBasic /\ [][NextBasic]_vars

\* ---- SpecHotkeys: main(): the hotkey callbacks run one at a time on the
\* keyboard listener's thread, so one dispatch thread makes every
\* start_session and end_session call
NextHotkeys ==
  \/ StartCall(1, CtlMinutes)
  \/ StartLocked(1)
  \/ StartSpawn(1)
  \/ Return(1)
  \/ EndCall(1)
  \/ EndLocked(1)
  \/ EndStopTimer(1)
  \/ EndFinish(1)
  \/ \E w \in 1..Len(workers) :
       \/ \E running, path_ok, popen_ok \in BOOLEAN : WorkerEnsure(w, running, path_ok, popen_ok)
       \/ \E shown \in LocatorResults : WorkerLaunchPoll(w, shown)
       \/ \E shown \in LocatorResults, foreground \in BOOLEAN : WorkerFocus(w, shown, foreground)
       \/ \E raises \in BOOLEAN : WorkerMacro(w, raises)
       \/ WorkerCreateTimer(w)
       \/ WorkerStartTimer(w)
  \/ \E t \in 1..Len(timers) :
       \/ TimerLoop(t)
       \/ TimerTick(t)
       \/ TimerAfter(t)
       \/ TimerOnEnd(t)
       \/ TimerFinish(t)

SpecHotkeys == Init /\ [][NextHotkeys]_vars

\* the steps of the _run threads of timer t that wait for nothing but the
\* scheduler
TimerStep(t) == TimerLoop(t) \/ TimerTick(t) \/ TimerAfter(t) \/ TimerFinish(t)

\* FairBasic: SpecBasic with every thread scheduled again and again: the tick
\* threads run, a dispatch thread inside a with block leaves it, and a tick
\* thread waiting in _on_timer_end gets the lock when it is free again and
\* again
FairBasic ==
  /\ InitBasic
  /\ [][NextBasic]_vars
  /\ WF_vars(Return(1))
  /\ \A t \in 1..MaxStarts : WF_vars(TimerStep(t)) /\ SF_vars(TimerOnEnd(t))

\* the steps of a dispatch thread that holds the controller lock
LockHolderStep(c) == Return(c) \/ EndStopTimer(c) \/ EndFinish(c)

\* ---- FairLock: one dispatch thread calls start_session while another
\* calls end_session, with the target already running and focusable at once
\* and no key event raising; a thread inside a with block is scheduled again
\* and again
NextLock ==
  \/ StartCall(1, CtlMinutes)
  \/ StartLocked(1)
  \/ StartSpawn(1)
  \/ Return(1)
  \/ EndCall(2)
  \/ EndLocked(2)
  \/ EndStopTimer(2)
  \/ EndFinish(2)
  \/ Return(2)
  \/ \E w \in 1..Len(workers) :
       \/ WorkerEnsure(w, TRUE, TRUE, TRUE)
       \/ WorkerFocus(w, "hwnd", TRUE)
       \/ WorkerMacro(w, FALSE)
       \/ WorkerCreateTimer(w)
       \/ WorkerStartTimer(w)
  \/ \E t \in 1..Len(timers) :
       \/ TimerLoop(t)
       \/ TimerTick(t)
       \/ TimerAfter(t)
       \/ TimerOnEnd(t)
       \/ TimerFinish(t)

FairLock ==
  /\ InitBasic
  /\ [][NextLock]_vars
  /\ \A c \in Callers : WF_vars(LockHolderStep(c))

\* =============================================== Dashboard.py: the Api
ExportKeys == << "ctrl+a", "ctrl+alt+shift+e" >>
SourcePath == << "Desktop", "exports" >>

\* the state of main.py's controller, which Dashboard.py does not have
ctl == << is_session_active, timer, lock, callers, workers, end_cues >>

\* a run_in_bg thread of Api.start_session / Api.execute_action
NewAction(action, minutes) ==
  [ action  |-> action,     \* "start", "export", "compress", "end", or "other"
    pc      |-> IF action \in {"start", "export"} THEN "ensure"
                ELSE IF action = "compress" THEN "compress"
                ELSE IF action = "end" THEN "stop_timer" ELSE "report",
    i       |-> 0,          \* iterations of the current polling loop
    keys    |-> 0,          \* key events sent by this call
    minutes |-> minutes,
    result  |-> IF action = "other" THEN "unknown_action" ELSE "none",
    fg      |-> FALSE,      \* GetForegroundWindow() == hwnd was observed in this call
    tid     |-> 0,          \* the SessionTimer this thread constructed
    zip     |-> 0 ]         \* the archive this thread created (an index of archives)

BgAt(b, pc) == b \in 1..Len(bg) /\ bg[b].pc = pc

\* Api.start_session(minutes): spawn run_in_bg and return
ApiStartSession(minutes) ==
  /\ Len(bg) < MaxActions
  /\ bg' = Append(bg, NewAction("start", minutes))
  /\ UNCHANGED << WINDOWS_AVAILABLE, wc, macro, ctl, timers, kills, api_timer, exported, archives >>

\* Api.execute_action(action): spawn run_in_bg and return
ApiExecuteAction(action) ==
  /\ Len(bg) < MaxActions
  /\ bg' = Append(bg, NewAction(action, 0))
  /\ UNCHANGED << WINDOWS_AVAILABLE, wc, macro, ctl, timers, kills, api_timer, exported, archives >>

\* the key events of start_tether / export_all, in order
Keys(action) == IF action = "start" THEN KeyEvents(start_tether) ELSE ExportKeys

AfterReturnKeys(action) == "macro"

\* where run_in_bg goes on when start_tether / export_all has returned its
\* string: start_session calls _start_timer, execute_action reports
AfterReturn(action) == IF action = "start" THEN "timer_check" ELSE "report"

\* start_tether / export_all returns the string result
Returned(th, result) ==
  [th EXCEPT !.result = result, !.pc = AfterReturn(th.action), !.i = 0, !.keys = 0]

\* an exception reaches the except clause of run_in_bg
Raised(th) == [th EXCEPT !.result = "error", !.pc = "report", !.i = 0, !.keys = 0]

NoLightroom(action) ==
  IF action = "start" THEN "tether_no_lightroom" ELSE "export_no_lightroom"

NoFocus(action) == IF action = "start" THEN "tether_no_focus" ELSE "export_no_focus"

Sent(action) == IF action = "start" THEN "tether_started" ELSE "export_sent"

\* Dashboard's ensure_lightroom_running up to the polling loop
BgEnsure(b, running, path_ok, popen_ok) ==
  /\ BgAt(b, "ensure")
  /\ bg' = [bg EXCEPT ![b] =
       IF WINDOWS_AVAILABLE /\ running THEN [@ EXCEPT !.pc = "focus"]
       ELSE IF ~path_ok \/ ~popen_ok THEN Returned(@, NoLightroom(@.action))
       ELSE [@ EXCEPT !.pc = "launch_poll"]]
  /\ UNCHANGED << WINDOWS_AVAILABLE, wc, macro, ctl, timers, kills, api_timer, exported, archives >>

\* Dashboard's ensure_lightroom_running: one iteration of `for _ in range(20)`
BgLaunchPoll(b, shown) ==
  /\ BgAt(b, "launch_poll")
  /\ LET found == find_window_by_title(shown)
         th == [bg[b] EXCEPT !.i = @ + 1]
     IN bg' = [bg EXCEPT ![b] =
          IF found = "hwnd" THEN [th EXCEPT !.pc = "focus", !.i = 0]
          ELSE IF found = "raise" \/ LoopDone(th.i, LaunchPolls)
            THEN Returned(th, NoLightroom(th.action))
            ELSE th]
  /\ UNCHANGED << WINDOWS_AVAILABLE, wc, macro, ctl, timers, kills, api_timer, exported, archives >>

\* Dashboard's wait_for_lightroom_focus: one iteration of the retry loop.
\* before, after: GetForegroundWindow() == hwnd before and after activate_window
BgFocus(b, shown, before, after) ==
  /\ BgAt(b, "focus")
  /\ LET found == find_window_by_title(shown)
         th == [bg[b] EXCEPT !.i = @ + 1]
     IN bg' = [bg EXCEPT ![b] =
          IF ~WINDOWS_AVAILABLE THEN [@ EXCEPT !.pc = "macro", !.i = 0]
          ELSE IF found = "raise" THEN Raised(th)
          ELSE IF found = "hwnd" /\ (before \/ after)
            THEN [th EXCEPT !.pc = "macro", !.i = 0, !.fg = TRUE]
            ELSE IF LoopDone(th.i, max_retries)
              THEN Returned(th, NoFocus(th.action))
              ELSE th]
  /\ UNCHANGED << WINDOWS_AVAILABLE, wc, macro, ctl, timers, kills, api_timer, exported, archives >>

\* start_tether / export_all: the next keyboard.send / keyboard.write
BgMacro(b, raises) ==
  /\ BgAt(b, "macro")
  /\ bg' = [bg EXCEPT ![b] =
       IF raises THEN Raised(@)
       ELSE IF @.keys + 1 = Len(Keys(@.action))
         THEN Returned(@, Sent(@.action))
         ELSE [@ EXCEPT !.keys = @ + 1]]
  /\ UNCHANGED << WINDOWS_AVAILABLE, wc, macro, ctl, timers, kills, api_timer, exported, archives >>

\* _start_timer: `if self.timer and self.timer.is_running: self.timer.stop()`
BgTimerCheck(b) ==
  /\ BgAt(b, "timer_check")
  /\ timers' = IF api_timer # 0 /\ timers[api_timer].is_running
                 THEN [timers EXCEPT ![api_timer] = TimerStop(@)]
                 ELSE timers
  /\ bg' = [bg EXCEPT ![b].pc = "timer_create"]
  /\ UNCHANGED << WINDOWS_AVAILABLE, wc, macro, ctl, kills, api_timer, exported, archives >>

\* _start_timer: `self.timer = SessionTimer(minutes, on_tick, on_remind, on_end)`
BgCreateTimer(b) ==
  /\ BgAt(b, "timer_create")
  /\ timers' = ApiCollect(Append(timers, SessionTimer(bg[b].minutes, "js")), Len(timers) + 1)
  /\ api_timer' = Len(timers) + 1
  /\ bg' = [bg EXCEPT ![b].pc = "timer_start", ![b].tid = Len(timers) + 1]
  /\ UNCHANGED << WINDOWS_AVAILABLE, wc, macro, ctl, kills, exported, archives >>

\* _start_timer: `self.timer.start()`: self.timer is read again; None raises
BgStartTimer(b) ==
  /\ BgAt(b, "timer_start")
  /\ IF api_timer = 0
       THEN /\ bg' = [bg EXCEPT ![b] = Raised(@)]
            /\ UNCHANGED timers
       ELSE /\ CanStart(timers[api_timer])
            /\ timers' = [timers EXCEPT ![api_timer] = TimerStart(@)]
            /\ bg' = [bg EXCEPT ![b].pc = "report"]
  /\ UNCHANGED << WINDOWS_AVAILABLE, wc, macro, ctl, kills, api_timer, exported, archives >>

\* _stop_timer: `if self.timer: self.timer.stop()`
BgStopTimer(b) ==
  /\ BgAt(b, "stop_timer")
  /\ IF api_timer # 0
       THEN /\ timers' = [timers EXCEPT ![api_timer] = TimerStop(@)]
            /\ bg' = [bg EXCEPT ![b].pc = "clear_timer"]
       ELSE /\ bg' = [bg EXCEPT ![b].pc = "end_session"]
            /\ UNCHANGED timers
  /\ UNCHANGED << WINDOWS_AVAILABLE, wc, macro, ctl, kills, api_timer, exported, archives >>

\* _stop_timer: `self.timer = None`
BgClearTimer(b) ==
  /\ BgAt(b, "clear_timer")
  /\ api_timer' = 0
  /\ timers' = ApiCollect(timers, 0)
  /\ bg' = [bg EXCEPT ![b].pc = "end_session"]
  /\ UNCHANGED << WINDOWS_AVAILABLE, wc, macro, ctl, kills, exported, archives >>

\* MacroActions.end_session: empty the export folder, delete the archives,
\* terminate the Lightroom process if one is found (running)
BgEndSession(b, running) ==
  /\ BgAt(b, "end_session")
  /\ exported' = [exported EXCEPT !.files = {}]
  /\ archives' = [z \in 1..Len(archives) |-> [archives[z] EXCEPT !.deleted = TRUE]]
  /\ kills' = IF running THEN kills + 1 ELSE kills
  /\ bg' = [bg EXCEPT ![b].result = "session_ended", ![b].pc = "report"]
  /\ UNCHANGED << WINDOWS_AVAILABLE, wc, macro, ctl, timers, api_timer >>

relative_to(file, base) == SubSeq(file, Len(base) + 1, Len(file))

\* source_path.iterdir() filtered by is_file(): the files directly in the folder
iterdir_files(dir) == {f \in dir.files : Len(f) = Len(SourcePath) + 1}

\* source_path.rglob("*") filtered by is_file(): the files at every depth
rglob_files(dir) ==
  {f \in dir.files : Len(f) > Len(SourcePath) /\ SubSeq(f, 1, Len(SourcePath)) = SourcePath}

\* MacroActions.compress_folder on the folder dir. fault: "none", or the
\* exception is raised on opening the archive ("open") or on a write after
\* the files in written were added ("write").
\* zip_path: whether a path is returned; created: the archive files it leaves.
compress_folder(dir, fault, written) ==
  IF ~dir.exists
    THEN [zip_path |-> FALSE, msg |-> "folder_created", created |-> << >>,
          dir |-> [exists |-> TRUE, files |-> {}]]
  ELSE IF iterdir_files(dir) = {}
    THEN [zip_path |-> FALSE, msg |-> "no_files", created |-> << >>, dir |-> dir]
  ELSE IF fault = "open"
    THEN [zip_path |-> FALSE, msg |-> "zip_error", created |-> << >>, dir |-> dir]
  ELSE IF fault = "write"
    THEN [zip_path |-> FALSE, msg |-> "zip_error",
          created |-> << [entries |-> {relative_to(f, SourcePath) : f \in written},
                          deleted |-> FALSE] >>,
          dir |-> dir]
    ELSE [zip_path |-> TRUE, msg |-> "zipped",
          created |-> << [entries |-> {relative_to(f, SourcePath) : f \in rglob_files(dir)},
                          deleted |-> FALSE] >>,
          dir |-> dir]

\* execute_action("compress"): `_, result = self.actions.compress_folder()`
BgCompress(b, fault, written) ==
  /\ BgAt(b, "compress")
  /\ IF fault = "write"
       THEN written \subseteq rglob_files(exported) /\ written # rglob_files(exported)
       ELSE written = {}
  /\ LET r == compress_folder(exported, fault, written)
     IN /\ exported' = r.dir
        /\ archives' = archives \o r.created
        /\ bg' = [bg EXCEPT ![b].result = r.msg, ![b].pc = "report",
                            ![b].zip = IF r.zip_path THEN Len(archives) + 1 ELSE 0]
  /\ UNCHANGED << WINDOWS_AVAILABLE, wc, macro, ctl, timers, kills, api_timer >>

\* run_in_bg: hand the result to the window and return
BgReport(b) ==
  /\ BgAt(b, "report")
  /\ bg' = [bg EXCEPT ![b].pc = "done"]
  /\ UNCHANGED << WINDOWS_AVAILABLE, wc, macro, ctl, timers, kills, api_timer, exported, archives >>

BgStep(b) ==
  \/ \E running, path_ok, popen_ok \in BOOLEAN : BgEnsure(b, running, path_ok, popen_ok)
  \/ \E shown \in LocatorResults : BgLaunchPoll(b, shown)
  \/ \E shown \in LocatorResults, before, after \in BOOLEAN : BgFocus(b, shown, before, after)
  \/ \E raises \in BOOLEAN : BgMacro(b, raises)
  \/ BgTimerCheck(b)
  \/ BgCreateTimer(b)
  \/ BgStartTimer(b)
  \/ BgStopTimer(b)
  \/ BgClearTimer(b)
  \/ \E running \in BOOLEAN : BgEndSession(b, running)
  \/ \E fault \in {"none", "open", "write"}, written \in SUBSET exported.files :
       BgCompress(b, fault, written)
  \/ BgReport(b)

ExportedPhoto == SourcePath \o << "a.jpg" >>

\* Dashboard.py after Api.__init__
InitDashboard ==
  /\ WINDOWS_AVAILABLE \in BOOLEAN
  /\ is_session_active = FALSE
  /\ timer = 0
  /\ lock = 0
  /\ callers = [c \in Callers |-> IdleCaller]
  /\ workers = << >>
  /\ end_cues = 0
  /\ kills = 0
  /\ timers = << >>
  /\ api_timer = 0
  /\ bg = << >>
  /\ archives = << >>
  /\ wc = NoCall
  /\ macro = << >>

\* ---- SpecApi: the Api of Dashboard.py with one exported photo in the folder
InitApi ==
  /\ InitDashboard
  /\ exported = [exists |-> TRUE, files |-> {ExportedPhoto}]

NextApi ==
  \/ ApiStartSession(CtlMinutes)
  \/ \E action \in {"export", "compress", "end", "other"} : ApiExecuteAction(action)
  \/ \E b \in 1..Len(bg) : BgStep(b)
  \/ \E t \in 1..Len(timers) :
       \/ TimerLoop(t)
       \/ TimerTick(t)
       \/ TimerAfter(t)
       \/ TimerFinish(t)

SpecApi == InitApi /\ [][NextApi]_vars

\* ---- SpecCompress: compress actions on every export folder of depth MaxDepth
FileNames == {"a.jpg", "b.jpg"}

Files ==
  {SourcePath \o [j \in 1..k |-> "d"] \o << n >> : k \in 0..(MaxDepth - 1), n \in FileNames}

InitCompress ==
  /\ InitDashboard
  /\ WINDOWS_AVAILABLE
  /\ \E exists \in BOOLEAN, files \in SUBSET Files :
       /\ ~exists => files = {}
       /\ exported = [exists |-> exists, files |-> files]

NextCompress ==
  \/ ApiExecuteAction("compress")
  \/ \E b \in 1..Len(bg) :
       \/ \E fault \in {"none", "open", "write"}, written \in SUBSET exported.files :
            BgCompress(b, fault, written)
       \/ BgReport(b)

SpecCompress == InitCompress /\ [][NextCompress]_vars

\* ================= WindowsController: one call, statement by statement
Hwnds == {"hwnd_a", "hwnd_b"}

\* every variable but wc
rest == << WINDOWS_AVAILABLE, ctl, timers, kills, dash, macro >>

WcAt(pc) == wc.ret = "none" /\ wc.pc = pc

Return_(call, value) == [call EXCEPT !.ret = value, !.pc = "returned"]

\* is_process_running(process_name), given whether such a process exists
is_process_running(running) == WINDOWS_AVAILABLE /\ running

\* ensure_lightroom_running: `if self.is_process_running(process_name): return True`
WcIsProcessRunning ==
  /\ WcAt("is_process_running")
  /\ LET found == is_process_running(wc.running)
     IN wc' = IF found THEN Return_([wc EXCEPT !.found = TRUE], "True")
                       ELSE [wc EXCEPT !.found = FALSE, !.pc = "path"]
  /\ UNCHANGED rest

AfterPathAlways(path_ok) == "popen"

\* `if not lr_path or not os.path.exists(lr_path): return False`
AfterPath(path_ok) == IF path_ok THEN "popen" ELSE "returned"

WcPath ==
  /\ WcAt("path")
  /\ wc' = IF AfterPath(wc.path_ok) = "returned"
             THEN Return_(wc, "False")
             ELSE [wc EXCEPT !.pc = AfterPath(wc.path_ok)]
  /\ UNCHANGED rest

\* `subprocess.Popen([lr_path])` inside the try: an exception returns False
WcPopen(popen_ok) ==
  /\ WcAt("popen")
  /\ wc' = IF popen_ok THEN [wc EXCEPT !.popen = @ + 1, !.pc = "poll"]
                       ELSE Return_([wc EXCEPT !.popen = @ + 1], "False")
  /\ UNCHANGED rest

\* one iteration of `for _ in range(20)`: sleep, find_window_by_title
WcPoll(shown) ==
  /\ WcAt("poll")
  /\ LET found == find_window_by_title(shown)
         call == [wc EXCEPT !.i = @ + 1, !.polls = @ + 1]
     IN wc' = IF found = "raise" THEN Return_(call, "False")
              ELSE IF found # "none" THEN Return_([call EXCEPT !.hwnd = found], "True")
              ELSE IF LoopDone(call.i, LaunchPolls) THEN Return_(call, "False")
              ELSE call
  /\ UNCHANGED rest

\* wait_for_lightroom_focus: `if not WINDOWS_AVAILABLE: return True`
WcWindows ==
  /\ WcAt("windows")
  /\ wc' = IF ~WINDOWS_AVAILABLE THEN Return_(wc, "True") ELSE [wc EXCEPT !.pc = "find"]
  /\ UNCHANGED rest

\* the end of one iteration of `for _ in range(max_retries)`
NextIteration(call) ==
  IF LoopDone(call.i, max_retries) THEN Return_(call, "False") ELSE [call EXCEPT !.pc = "find"]

\* `hwnd = self.find_window_by_title(title_contains)` and `if not hwnd: continue`
WcFind(shown) ==
  /\ WcAt("find")
  /\ LET found == find_window_by_title(shown)
         call == [wc EXCEPT !.i = @ + 1]
     IN wc' = IF found = "raise" THEN Return_(call, "raised")
              ELSE LET got == [call EXCEPT !.hwnd = found, !.hwnd_at = call.i]
                   IN IF found = "none" THEN NextIteration(got)
                      ELSE [got EXCEPT !.pc = IF wc.impl = "main" THEN "activate"
                                              ELSE "foreground_before"]
  /\ UNCHANGED rest

ForegroundIsAny(fg, hwnd) == TRUE

\* `win32gui.GetForegroundWindow() == hwnd`
ForegroundIs(fg, hwnd) == fg = hwnd

\* Dashboard.py: the test before activate_window
WcForegroundBefore(fg) ==
  /\ WcAt("foreground_before")
  /\ LET call == [wc EXCEPT !.fg = fg, !.fg_at = wc.i]
     IN wc' = IF ForegroundIs(fg, wc.hwnd) THEN Return_(call, "True")
              ELSE [call EXCEPT !.pc = "activate"]
  /\ UNCHANGED rest

\* `self.activate_window(hwnd)`, whose result is not looked at
WcActivate ==
  /\ WcAt("activate")
  /\ wc' = [wc EXCEPT !.activations = @ + 1, !.pc = "foreground_after"]
  /\ UNCHANGED rest

\* the test after activate_window (in Dashboard.py after time.sleep(0.8))
WcForegroundAfter(fg) ==
  /\ WcAt("foreground_after")
  /\ LET call == [wc EXCEPT !.fg = fg, !.fg_at = wc.i]
     IN wc' = IF ForegroundIs(fg, wc.hwnd) THEN Return_(call, "True")
              ELSE NextIteration(call)
  /\ UNCHANGED rest

\* ---- SpecWindows: one call of either function of either implementation, in
\* every environment
InitWindows ==
  /\ WINDOWS_AVAILABLE \in BOOLEAN
  /\ is_session_active = FALSE
  /\ timer = 0
  /\ lock = 0
  /\ callers = [c \in Callers |-> IdleCaller]
  /\ workers = << >>
  /\ end_cues = 0
  /\ kills = 0
  /\ timers = << >>
  /\ api_timer = 0
  /\ bg = << >>
  /\ exported = [exists |-> TRUE, files |-> {}]
  /\ archives = << >>
  /\ \E impl \in {"main", "Dashboard"}, fn \in {"ensure", "focus"}, running, path_ok \in BOOLEAN :
       wc = NewCall(impl, fn, running, path_ok)
  /\ macro = << >>

NextWindows ==
  \/ WcIsProcessRunning
  \/ WcPath
  \/ \E popen_ok \in BOOLEAN : WcPopen(popen_ok)
  \/ \E shown \in Hwnds \cup {"none", "raise"} : WcPoll(shown)
  \/ WcWindows
  \/ \E shown \in Hwnds \cup {"none", "raise"} : WcFind(shown)
  \/ \E fg \in Hwnds \cup {"other"} : WcForegroundBefore(fg)
  \/ WcActivate
  \/ \E fg \in Hwnds \cup {"other"} : WcForegroundAfter(fg)

SpecWindows == InitWindows /\ [][NextWindows]_vars

\* ========================= the tether macro of both implementations, played
Impls == {"main", "Dashboard"}

MacroOf(impl) == IF impl = "main" THEN run_start_sequence ELSE start_tether

\* what datetime.now() may return while a macro runs
Clock == {"09:59:07", "09:59:58", "10:00:03"}

\* now.strftime("%Y-%m-%d_%H-%M"): the date, hour and minute, without the seconds
strftime(now) ==
  CASE now = "09:59:07" -> "2026-11-03_09-59"
    [] now = "09:59:58" -> "2026-11-03_09-59"
    [] now = "10:00:03" -> "2026-11-03_10-00"

\* a macro before its first statement
NewMacro ==
  [ pc     |-> 1,        \* the next statement
    slept  |-> 0,        \* tenths of a second slept since the last key event
    events |-> << >>,    \* the key events emitted, each with the delay before it
    ret    |-> "none" ]  \* "done", or "raised"

\* past statement m.pc of a macro of n statements
Advance(m, n) == IF m.pc = n THEN [m EXCEPT !.ret = "done"] ELSE [m EXCEPT !.pc = @ + 1]

\* the next statement of the macro of impl; a keyboard call may raise
MacroStep(impl, now, raises) ==
  /\ impl \in DOMAIN macro
  /\ macro[impl].ret = "none"
  /\ LET m == macro[impl]
         st == MacroOf(impl)[m.pc]
         n == Len(MacroOf(impl))
     IN macro' = [macro EXCEPT ![impl] =
          IF st.op = "sleep" THEN Advance([m EXCEPT !.slept = @ + st.d], n)
          ELSE IF raises THEN [m EXCEPT !.ret = "raised"]
          ELSE Advance([m EXCEPT
                 !.events = Append(@, [op    |-> st.op,
                                       key   |-> IF st.op = "write_name"
                                                   THEN strftime(now) ELSE st.key,
                                       after |-> m.slept]),
                 !.slept = 0], n)]
  /\ UNCHANGED << WINDOWS_AVAILABLE, wc, ctl, timers, kills, dash >>

\* ---- SpecMacro: both macros played side by side, at any times of the clock
InitMacro ==
  /\ WINDOWS_AVAILABLE = TRUE
  /\ is_session_active = FALSE
  /\ timer = 0
  /\ lock = 0
  /\ callers = [c \in Callers |-> IdleCaller]
  /\ workers = << >>
  /\ end_cues = 0
  /\ kills = 0
  /\ timers = << >>
  /\ api_timer = 0
  /\ bg = << >>
  /\ exported = [exists |-> TRUE, files |-> {}]
  /\ archives = << >>
  /\ wc = NoCall
  /\ macro = [impl \in Impls |-> NewMacro]

NextMacro == \E impl \in Impls, now \in Clock, raises \in BOOLEAN : MacroStep(impl, now, raises)

SpecMacro == InitMacro /\ [][NextMacro]_vars

\* ================= Dashboard.py's SessionTimer with callbacks that may raise
\* SessionTimer._run: `self.on_tick(self.remaining_seconds)` raises (cb =
\* "on_tick"), or `self.on_remind(...)` raises (cb = "on_remind"): the
\* exception ends the _run thread where it stands
TimerTickRaises(t, cb) ==
  /\ ThreadAt(t, "sleep")
  /\ timers[t].on_end = "js"
  /\ LET tm == timers[t]
         decremented == [tm EXCEPT !.remaining = @ - 1]
     IN IF cb = "on_tick"
          THEN timers' = [timers EXCEPT ![t] = Move(decremented, "sleep", "done")]
          ELSE /\ TickBody(tm) # decremented
               /\ timers' = [timers EXCEPT ![t] = Move(TickBody(tm), "sleep", "done")]
  /\ UNCHANGED << WINDOWS_AVAILABLE, wc, macro, ctl, kills, dash >>

\* SessionTimer._run: `self.on_end()` raises after the end cue, before the
\* final `self.is_running = False`
TimerEndRaises(t) ==
  /\ ThreadAt(t, "after")
  /\ timers[t].on_end = "js"
  /\ timers[t].is_running
  /\ timers' = [timers EXCEPT ![t] =
       Move([@ EXCEPT !.ends = @ + 1, !.late_end = @ \/ timers[t].stopped], "after", "done")]
  /\ UNCHANGED << WINDOWS_AVAILABLE, wc, macro, ctl, kills, dash >>

\* ---- SpecJsTimer: the SessionTimer that Api._start_timer constructs, its
\* start() and stop(), and window.evaluate_js raising or not in each callback
InitJsTimer ==
  /\ WINDOWS_AVAILABLE = TRUE
  /\ is_session_active = FALSE
  /\ timer = 0
  /\ lock = 0
  /\ callers = [c \in Callers |-> IdleCaller]
  /\ workers = << >>
  /\ end_cues = 0
  /\ kills = 0
  /\ \E m \in {CtlMinutes, JsMinutes} : timers = << SessionTimer(m, "js") >>
  /\ api_timer = 1
  /\ bg = << >>
  /\ exported = [exists |-> TRUE, files |-> {}]
  /\ archives = << >>
  /\ wc = NoCall
  /\ macro = << >>

NextJsTimer ==
  \E t \in 1..Len(timers) :
    \/ CallTimerStart(t)
    \/ CallTimerStop(t)
    \/ TimerLoop(t)
    \/ TimerTick(t)
    \/ \E cb \in {"on_tick", "on_remind"} : TimerTickRaises(t, cb)
    \/ TimerAfter(t)
    \/ TimerEndRaises(t)
    \/ TimerFinish(t)

SpecJsTimer == InitJsTimer /\ [][NextJsTimer]_vars

\* ================================================================== claims
Workers == 1..Len(workers)
Timers == 1..Len(timers)
AcqPcs == {"ensure", "launch_poll", "focus"}
InFlight == Cardinality({w \in Workers : workers[w].pc # "done"})
Running == Cardinality({t \in Timers : timers[t].is_running})
Accepts(c) == callers[c].pc = "start_lock" /\ callers'[c].pc = "start_spawn"
Rejects(c) == callers[c].pc = "start_lock" /\ callers'[c].pc = "start_reject"
Shared == << is_session_active, timer, workers, timers, end_cues, kills >>

\* C1 as stated: of start_session calls that race, exactly one is accepted; a
\* call is never accepted when a call whose execution overlaps its own has
\* been accepted.
C1_OneOfRacingCalls ==
  [][\A c \in Callers :
       Accepts(c) => /\ ~callers[c].raced
                     /\ \A d \in Callers \ {c} : callers[d].pc # "start_spawn"]_vars

\* C1 amended: a start_session call is accepted only when it finds
\* is_session_active False under the lock, and it then sets the flag and
\* spawns exactly one start sequence; a call that finds the flag set returns
\* as already active and changes neither the flag, the timer, the workers
\* (so no key event), the timers nor the cues. Of racing calls a second one
\* is accepted only after the flag was cleared in between.
C1_CheckAndSet ==
  [][\A c \in Callers :
       /\ Accepts(c) => ~is_session_active /\ is_session_active'
       /\ Rejects(c) => is_session_active /\ UNCHANGED Shared
       /\ (callers[c].pc = "start_reject" /\ callers'[c].pc = "idle") => UNCHANGED Shared
       /\ (callers[c].pc = "start_spawn" /\ callers'[c].pc = "idle")
            => /\ Len(workers') = Len(workers) + 1
               /\ workers'[Len(workers')].pc = "ensure"
               /\ UNCHANGED << is_session_active, timer, timers, end_cues, kills >>]_vars

\* C1 witness: a call is being rejected as already active after a call it
\* raced with was accepted.
C1_Witness ==
  \E c \in Callers : callers[c].pc = "start_reject" /\ callers[c].raced /\ is_session_active

\* C2 as stated: start sequences in flight plus running countdowns never
\* exceed one.
C2_AtMostOneSession == InFlight + Running <= 1

\* C3: a start attempt that fails in ensure_lightroom_running, in
\* wait_for_lightroom_focus or in the macro ends with is_session_active False
\* and has neither constructed nor started a SessionTimer, so the next
\* start_session check-and-set would accept.
C3_FailureClearsFlag ==
  [][\A w \in Workers :
       (workers[w].pc \in AcqPcs \cup {"macro"} /\ workers'[w].pc = "done")
         => /\ ~is_session_active'
            /\ StartCheck(is_session_active') = "accepted"
            /\ workers'[w].res # "ok"
            /\ workers'[w].tid = 0
            /\ UNCHANGED << timer, timers >>]_vars

\* C3 witness: an attempt gave up on focus and the flag is clear.
C3_Witness ==
  \E w \in Workers : workers[w].res = "no_focus" /\ workers[w].tid = 0 /\ ~is_session_active

\* C4: end_session that finds is_session_active False takes the return
\* branch and changes nothing: flag, timer, timers, cues and process
\* terminations stay as they were.
C4_EndWhenIdleIsNoOp ==
  [][\A c \in Callers :
       /\ (callers[c].pc = "end_lock" /\ ~is_session_active /\ callers'[c].pc # "end_lock")
            => callers'[c].pc = "end_noop" /\ UNCHANGED Shared
       /\ (callers[c].pc = "end_noop" /\ callers'[c].pc = "idle") => UNCHANGED Shared]_vars

\* C4 witness: end_session is returning from its not-active branch.
C4_Witness ==
  \E c \in Callers : callers[c].pc = "end_noop" /\ ~is_session_active /\ lock = c

\* C5 as stated: end_session on an active session stops the timer, clears
\* the flag, plays the end cue and terminates the Lightroom process.
C5_EndTerminatesTarget ==
  [][\A c \in Callers :
       (callers[c].pc \in {"end_clear", "end_finish"} /\ callers'[c].pc = "idle")
         => /\ ~is_session_active'
            /\ end_cues' = end_cues + 1
            /\ timer' = 0 \/ ~timers'[timer'].is_running
            /\ kills' = kills + 1]_vars

\* C6: focus acquisition terminates: the launch loop makes at most 20 polls
\* and the focus loop at most 10, an attempt in which the locator never
\* returned a window does not reach the macro, and every attempt leaves
\* focus acquisition.
C6_AcquisitionTerminates ==
  /\ [](\A w \in Workers :
          /\ workers[w].pc = "launch_poll" => workers[w].i < LaunchPolls
          /\ workers[w].pc = "focus" => workers[w].i < max_retries)
  /\ [][\A w \in Workers :
          (workers[w].pc \in AcqPcs /\ workers'[w].pc = "macro")
            => workers'[w].saw \/ ~WINDOWS_AVAILABLE]_vars
  /\ \A w \in 1..MaxStarts :
       (w \in Workers /\ workers[w].pc \in AcqPcs)
         ~> (w \in Workers /\ workers[w].pc \notin AcqPcs)

\* C6 witness: the launch path gave up without ever seeing a window.
C6_Witness ==
  \E w \in Workers : workers[w].res = "no_window" /\ ~is_session_active

\* a countdown that ran from its one start() to natural expiry
Completed(tm) == Spawned(tm) = 1 /\ tm.ends = 1

\* C7 as stated: every configured threshold fires exactly once in a
\* completed, uninterrupted countdown of any duration >= 1.
C7_EveryThresholdOnce ==
  \A t \in Timers : \A p \in DOMAIN reminder_points :
    Completed(timers[t]) => timers[t].fired[p] = 1

\* C7 amended: in a completed, uninterrupted countdown a threshold T below
\* duration_minutes fires exactly once, at the first tick with
\* remaining_seconds // 60 = T (remaining_seconds = 60*T + 59); a threshold
\* T >= duration_minutes never fires.
C7_ThresholdsBelowDuration ==
  \A t \in Timers : \A p \in DOMAIN reminder_points :
    LET tm == timers[t] IN
      /\ tm.fired[p] > 0 => tm.first_at[p] \div 60 = p /\ tm.first_at[p] = 60 * p + 59
      /\ Spawned(tm) = 1 => tm.fired[p] <= 1
      /\ Completed(tm) => tm.fired[p] = (IF p < tm.minutes THEN 1 ELSE 0)

\* C7 witness: a 16-minute countdown completed and both cues fired once.
C7_Witness ==
  \E t \in Timers :
    /\ Completed(timers[t])
    /\ timers[t].minutes > 15
    /\ \A p \in DOMAIN reminder_points : timers[t].fired[p] = 1

\* C8 as stated: for one SessionTimer, under every sequence of start(),
\* ticks and stop(), each threshold's reminder fires at most once.
C8_AtMostOncePerTimer ==
  \A t \in Timers : \A p \in DOMAIN reminder_points : timers[t].fired[p] <= 1

\* C9 as stated: after a stop() made before natural expiry neither the
\* expiry (end cue, callback) nor any reminder cue fires.
C9_StopSuppressesAll ==
  \A t \in Timers : ~timers[t].late_end /\ ~timers[t].late_cue

\* C10 as stated: start_session(30) starts a timer of 1800 seconds whose
\* 15-minute cue fires once at the tick to 900 and whose 5-minute cue fires
\* once at the tick to 300.
C10_CuesAt900And300 ==
  \A t \in Timers :
    LET tm == timers[t] IN
      /\ tm.minutes = BasicMinutes
      /\ Spawned(tm) = 0 => tm.remaining = 1800
      /\ tm.fired[15] <= 1 /\ tm.fired[5] <= 1
      /\ tm.fired[15] = 1 => tm.first_at[15] = 900
      /\ tm.fired[5] = 1 => tm.first_at[5] = 300
      /\ tm.ends > 0 => tm.fired[15] = 1 /\ tm.fired[5] = 1

\* C11: a controller session whose timer is never stopped counts down from
\* duration_minutes * 60 by one per tick to 0, then plays the end cue and
\* calls _on_timer_end exactly once, at 0; the callback clears
\* is_session_active, so that the next start_session check would accept; and
\* every started countdown reaches that end with is_running False.
C11_ExpiryResetsController ==
  /\ [](\A t \in Timers :
          LET tm == timers[t] IN
            /\ Spawned(tm) = 0 => tm.remaining = tm.minutes * 60
            /\ tm.ends <= 1
            /\ tm.ends = 1 => tm.remaining = 0
            /\ tm.threads["done"] = 1 => tm.ends = 1 /\ ~tm.is_running)
  /\ [][\A t \in Timers :
          /\ timers'[t].remaining # timers[t].remaining
               => timers'[t].remaining = timers[t].remaining - 1
          /\ timers'[t].threads["on_end"] < timers[t].threads["on_end"]
               => ~is_session_active' /\ StartCheck(is_session_active') = "accepted"]_vars
  /\ \A t \in 1..MaxStarts :
       (t \in Timers /\ timers[t].is_running)
         ~> (t \in Timers /\ timers[t].ends = 1 /\ timers[t].remaining = 0
               /\ ~timers[t].is_running)

\* C11 witness: a 30-minute countdown has expired once, its thread is over
\* and the controller is idle.
C11_Witness ==
  \E t \in Timers :
    /\ timers[t].minutes = BasicMinutes /\ timers[t].threads["done"] = 1
    /\ timers[t].ends = 1 /\ timers[t].remaining = 0 /\ ~timers[t].is_running
    /\ ~is_session_active

\* C12: in every start attempt a key event is sent only in the macro, the
\* macro is entered only from a successful wait_for_lightroom_focus, which is
\* entered only from a successful ensure_lightroom_running, and
\* SessionTimer.start is called only by an attempt that has sent all of its
\* macro key events.
C12_FocusMacroTimerOrder ==
  /\ [](\A w \in Workers :
          /\ workers[w].pc \in {"timer_create", "timer_start"}
               => workers[w].keys = Len(MacroKeys)
          /\ workers[w].pc \in AcqPcs => workers[w].keys = 0 /\ workers[w].tid = 0)
  /\ [][\A w \in Workers :
          /\ workers'[w].keys > workers[w].keys
               => workers[w].pc = "macro" /\ workers'[w].keys = workers[w].keys + 1
          /\ (workers'[w].pc = "macro" /\ workers[w].pc # "macro")
               => workers[w].pc = "focus" /\ AcquisitionResult(workers'[w].res)[2]
          /\ (workers'[w].pc = "focus" /\ workers[w].pc # "focus")
               => workers[w].pc \in {"ensure", "launch_poll"}
          /\ (workers'[w].pc = "timer_create" /\ workers[w].pc # "timer_create")
               => workers[w].pc = "macro"]_vars
  /\ [][\A t \in Timers :
          Spawned(timers'[t]) > Spawned(timers[t])
            => \E w \in Workers :
                 /\ workers[w].pc = "timer_start" /\ workers'[w].pc = "done"
                 /\ workers[w].keys = Len(MacroKeys)]_vars

\* C12 witness: an attempt went through acquisition and the whole macro and
\* then started the timer it had constructed.
C12_Witness ==
  \E w \in Workers :
    /\ workers[w].res = "ok" /\ workers[w].tid # 0
    /\ Spawned(timers[workers[w].tid]) = 1

\* failure reasons of focus acquisition
AcqFailures == {"path_invalid", "launch_failed", "no_window", "no_focus"}

\* C13 as stated: attempts that failed focus acquisition for different
\* reasons were handed different results.
C13_ReasonsDistinguished ==
  \A v, w \in Workers :
    (workers[v].res \in AcqFailures /\ workers[w].res \in AcqFailures
       /\ workers[v].res # workers[w].res)
      => AcquisitionResult(workers[v].res) # AcquisitionResult(workers[w].res)

\* With one dispatch thread the start sequences are spawned in the order
\* their calls were accepted: the w-th worker runs for the w-th session,
\* and a set is_session_active was set by the latest accepted call.
\* the session whose start sequence constructed timer t
SessionOf(t) == CHOOSE w \in Workers : workers[w].tid = t

\* C20 as stated: a failure exit of a start sequence, or the expiry callback
\* of a timer, clears a set is_session_active only when its own session is
\* the one that set it, that is the latest accepted one.
C20_ClearedByOwnSessionOnly ==
  [][(is_session_active /\ ~is_session_active')
       => /\ \A w \in Workers :
               (workers[w].pc # "done" /\ workers'[w].pc = "done" /\ workers'[w].res # "ok")
                 => w = Accepted
          /\ \A t \in Timers :
               timers'[t].threads["on_end"] < timers[t].threads["on_end"]
                 => SessionOf(t) = Accepted]_vars

\* positions of a dispatch thread inside a `with self._lock` block
LockPcs == {"start_reject", "end_noop", "end_timer", "end_clear", "end_finish"}

\* C19: the controller lock is held only by a dispatch thread inside one of
\* the with blocks, whose next step waits for nothing (no polling, no macro
\* delay, no join of a worker or tick thread); a dispatch thread outside the
\* blocks waits for nothing but the lock, which it can take whenever it is
\* free; _on_timer_end runs on the tick thread, which holds no lock while it
\* waits; and a held lock is always released again.
C19_LockNeverBlocks ==
  /\ [](\A c \in Callers :
          /\ lock = c <=> callers[c].pc \in LockPcs
          /\ lock = c => ENABLED LockHolderStep(c)
          /\ callers[c].pc = "start_spawn" => ENABLED StartSpawn(c)
          /\ (callers[c].pc = "start_lock" /\ lock = 0) => ENABLED StartLocked(c)
          /\ (callers[c].pc = "end_lock" /\ lock = 0) => ENABLED EndLocked(c))
  /\ [](\A t \in Timers :
          (timers[t].threads["on_end"] > 0 /\ lock = 0) => ENABLED TimerOnEnd(t))
  /\ (lock # 0) ~> (lock = 0)

\* C19 witness: end_session holds the lock at the timer stop while a
\* start_session call waits for the lock and a start sequence is in its macro.
C19_Witness ==
  \E c, d \in Callers :
    /\ lock = c /\ callers[c].pc = "end_timer"
    /\ callers[d].pc = "start_lock"
    /\ \E w \in Workers : workers[w].pc = "macro"

Bgs == 1..Len(bg)

\* C14 as stated: a start_session thread whose start_tether returned a focus
\* acquisition failure has constructed no SessionTimer.
C14_NoTimerAfterFailedTether ==
  \A b \in Bgs :
    bg[b].result \in {"tether_no_lightroom", "tether_no_focus"} => bg[b].tid = 0

\* start_session threads that have not yet finished _start_timer, and the
\* Api's countdowns marked running
ApiInFlight ==
  Cardinality({b \in Bgs : bg[b].action = "start" /\ bg[b].pc \notin {"report", "done"}})
ApiRunning ==
  Cardinality({t \in Timers : timers[t].on_end = "js" /\ timers[t].is_running})

\* C15 as stated: per Api at most one start sequence or countdown exists: a
\* start_session call made while one is under way starts nothing.
C15_OneSessionPerApi == ApiInFlight + ApiRunning <= 1

\* no session of the Api is starting or counting down
ApiIdle == ApiInFlight = 0 /\ ApiRunning = 0 /\ api_timer = 0

\* C16 as stated: the steps of an 'end' action taken while no session is
\* active delete no exported file and no archive and terminate no process.
C16_ApiEndWhenIdleKeepsFiles ==
  [][\A b \in Bgs :
       (ApiIdle /\ bg[b].action = "end" /\ bg'[b].pc # bg[b].pc)
         => UNCHANGED << exported, archives, kills >>]_vars

\* C17: an export_all call sends a key event only from its key sequence,
\* which it enters only from a wait_for_lightroom_focus that observed the
\* window in the foreground; a call that returns one of the two failure
\* strings does so from focus acquisition, before any key event, and goes on
\* to the report only.
C17_ExportKeysAfterFocus ==
  /\ [](\A b \in Bgs :
          bg[b].action = "export" =>
            /\ bg[b].pc = "macro" => bg[b].fg
            /\ bg[b].pc \in AcqPcs => bg[b].keys = 0
            /\ bg[b].keys < Len(ExportKeys)
            /\ bg[b].tid = 0)
  /\ [][\A b \in Bgs :
          bg[b].action = "export" =>
            /\ bg'[b].keys # bg[b].keys => bg[b].pc = "macro" /\ bg[b].fg
            /\ (bg'[b].pc = "macro" /\ bg[b].pc # "macro") => bg[b].pc = "focus"
            /\ (bg[b].result = "none"
                  /\ bg'[b].result \in {"export_no_lightroom", "export_no_focus"})
                 => bg[b].pc \in AcqPcs /\ bg[b].keys = 0 /\ bg'[b].pc = "report"
            /\ bg[b].pc \in {"report", "done"} => bg'[b].keys = bg[b].keys]_vars

\* C17 witness: one export_all call sent both key combinations after it had
\* the focus, another returned a failure string.
C17_Witness ==
  \E a, b \in Bgs :
    /\ bg[a].action = "export" /\ bg[a].result = "export_sent" /\ bg[a].fg
    /\ bg[b].action = "export" /\ bg[b].result = "export_no_focus"

\* C18 as stated: compress_folder on a folder without files reports no
\* files and creates no archive; on a folder with files at any depth it
\* returns an archive whose entries are exactly those files under their
\* paths relative to the folder. (Calls that created the folder or hit an
\* I/O error are left out.)
C18_ArchiveHoldsEveryFile ==
  \A b \in Bgs :
    (bg[b].action = "compress" /\ bg[b].result \in {"no_files", "zipped"})
      => IF exported.files = {}
           THEN bg[b].result = "no_files" /\ bg[b].zip = 0 /\ archives = << >>
           ELSE /\ bg[b].result = "zipped" /\ bg[b].zip # 0
                /\ {SourcePath \o e : e \in archives[bg[b].zip].entries} = exported.files
                /\ Cardinality(archives[bg[b].zip].entries) = Cardinality(exported.files)

\* a countdown that is under way: marked running, seconds left, a _run thread alive
Ticking(tm) == tm.is_running /\ tm.remaining > 0 /\ Live(tm) > 0

\* C21 as stated: whenever is_session_active is False and no start sequence
\* is in flight, no countdown is ticking: end_session leaves no timer of the
\* session it ended running or to be started.
C21_NoCountdownWhenIdle ==
  (~is_session_active /\ InFlight = 0 /\ \A c \in Callers : callers[c].pc = "idle")
    => \A t \in Timers : ~Ticking(timers[t])


\* C22 as stated: the executable is spawned at most once per call, and only when
\* no process of the configured name exists and the path is valid; when such a
\* process exists nothing is spawned, and a call that gets as far as an invalid
\* path returns False without a spawn or a window poll.
C22_SpawnOnlyWhenNotRunning ==
  wc.fn = "ensure" =>
    /\ wc.popen <= 1
    /\ wc.popen > 0 => (~wc.running /\ wc.path_ok)
    /\ wc.running => wc.popen = 0
    /\ (wc.pc = "returned" /\ ~wc.running /\ ~wc.path_ok) =>
         (wc.ret = "False" /\ wc.popen = 0 /\ wc.polls = 0)

\* C22 amended: the same with "is already running" read as "is_process_running
\* returned True": the executable is spawned at most once per call and only
\* after is_process_running returned False and the path was found valid; when
\* is_process_running returns True the call returns True with no spawn and no
\* poll; when it returns False and the path is invalid the call returns False
\* with no spawn and no poll.
C22_SpawnOnlyWhenReportedNotRunning ==
  wc.fn = "ensure" =>
    /\ wc.popen <= 1
    /\ wc.popen > 0 => (~wc.found /\ wc.path_ok)
    /\ wc.polls > 0 => wc.popen = 1
    /\ wc.found => (wc.ret = "True" /\ wc.popen = 0 /\ wc.polls = 0)
    /\ wc.found => is_process_running(wc.running)
    /\ (wc.pc = "returned" /\ ~wc.found /\ ~wc.path_ok) =>
         (wc.ret = "False" /\ wc.popen = 0 /\ wc.polls = 0)

\* a call that spawned the executable once and polled for its window to the end
C22_Witness ==
  /\ wc.fn = "ensure" /\ wc.pc = "returned"
  /\ ~wc.found /\ wc.path_ok
  /\ wc.popen = 1 /\ wc.polls = LaunchPolls /\ wc.ret = "False"

\* C23: with the windowing API available, wait_for_lightroom_focus of either
\* implementation returns True only when GetForegroundWindow() was seen equal
\* to the handle find_window_by_title returned in the same iteration; each
\* iteration resolves the handle anew before activating or comparing;
\* activate_window is called at most once per iteration and there are at most
\* max_retries iterations; False is returned only after max_retries iterations,
\* none of which saw the foreground window equal to its handle.
C23_FocusObservedInSameIteration ==
  (wc.fn = "focus" /\ WINDOWS_AVAILABLE) =>
    /\ wc.ret = "True" =>
         (wc.hwnd \in Hwnds /\ wc.fg = wc.hwnd /\ wc.hwnd_at = wc.i /\ wc.fg_at = wc.i)
    /\ wc.pc \in {"foreground_before", "activate", "foreground_after"} =>
         (wc.hwnd \in Hwnds /\ wc.hwnd_at = wc.i)
    /\ wc.activations <= wc.i /\ wc.i <= max_retries
    /\ wc.ret = "False" => wc.i = max_retries
    /\ (wc.i > 0 /\ wc.fg_at = wc.i /\ wc.hwnd_at = wc.i /\ wc.fg = wc.hwnd) =>
         wc.ret = "True"

\* Dashboard.py's loop succeeding in its last iteration, after the activation
C23_Witness ==
  /\ wc.fn = "focus" /\ WINDOWS_AVAILABLE /\ wc.impl = "Dashboard"
  /\ wc.ret = "True" /\ wc.i = max_retries /\ wc.activations = max_retries
  /\ wc.fg = wc.hwnd


\* C24: in every state of a SessionTimer 0 <= remaining_seconds <=
\* duration_minutes * 60; remaining_seconds changes only by a decrement of
\* exactly 1, and is not decremented once it is 0.
C24_RemainingInRange ==
  /\ [](\A t \in Timers :
          0 <= timers[t].remaining /\ timers[t].remaining <= timers[t].minutes * 60)
  /\ [][\A t \in Timers :
          timers'[t].remaining # timers[t].remaining =>
            (timers[t].remaining > 0 /\ timers'[t].remaining = timers[t].remaining - 1)]_vars


\* a key event with the session name, the one text that depends on the clock, left out
Masked(e) == IF e.op = "write_name" THEN [e EXCEPT !.key = "session_name"] ELSE e

\* C25: the tether macros of main.py and Dashboard.py are the same statements;
\* played side by side under any clock and up to any raising keyboard call,
\* the k-th key event of one is the k-th key event of the other (same call,
\* same key, same delay before it) but for the session name's text, the keys
\* are alt+f, 8 x down, right, enter, session name, 4 x tab, '1', enter,
\* ctrl+alt+1, e, and a macro that returns has emitted all of them.
C25_SameKeyEvents ==
  /\ run_start_sequence = start_tether
  /\ KeyEvents(run_start_sequence) = MacroKeys
  /\ Keys("start") = MacroKeys
  /\ \A a \in DOMAIN macro :
       /\ Len(macro[a].events) <= Len(MacroKeys)
       /\ \A k \in 1..Len(macro[a].events) : Masked(macro[a].events[k]).key = MacroKeys[k]
       /\ macro[a].ret = "done" => Len(macro[a].events) = Len(MacroKeys)
       /\ \A b \in DOMAIN macro :
            \A k \in 1..Len(macro[a].events) :
              k <= Len(macro[b].events) =>
                Masked(macro[a].events[k]) = Masked(macro[b].events[k])

\* both macros played to the end, across a change of the minute
C25_Witness ==
  /\ DOMAIN macro = Impls
  /\ \A a \in Impls : macro[a].ret = "done"
  /\ macro["main"].events # macro["Dashboard"].events


\* C26: whatever a tick, reminder or end callback of Dashboard.py's
\* SessionTimer does, a timer marked running has a _run thread that ticks it
\* or is about to clear the mark: it is never left marked running with no
\* tick loop.
C26_RunningHasTickLoop ==
  \A t \in Timers :
    (timers[t].on_end = "js" /\ timers[t].is_running) => Live(timers[t]) > 0

============================================================================
